---- MODULE Spec2Model ----
(***************************************************************************)
(* Model of src/chatapp/state.py: the SSE stream processor                 *)
(* (StreamProcessor), the completion client (AsyncOpenRouterAI.Chat.create)*)
(* and the conversation orchestrator (State).                              *)
(*                                                                         *)
(* Text is a sequence of characters, a chunk is a sequence of bytes; both  *)
(* are written as sequences of short strings.  A character outside ASCII   *)
(* is the two bytes UTF-8 gives it.                                        *)
(***************************************************************************)
EXTENDS Integers, Sequences, FiniteSets, TLC

\* ------------------------------------------------------------------------
\* Bounds of the model
\* ------------------------------------------------------------------------

\* the most places at which the transport cuts a byte stream into chunks
MaxCuts == 2

\* ------------------------------------------------------------------------
\* Bytes, characters, UTF-8
\* ------------------------------------------------------------------------

\* Python's None, for an Optional[str]; no text equals it
None == <<"None">>

LF == "LF"
CR == "CR"
SP == " "

\* the character U+00E9 and the two bytes of its UTF-8 encoding
EAcute == "U+E9"
Utf8Lead == "C3"
Utf8Cont == "A9"

\* str.encode("utf-8") on the server's side of the wire
RECURSIVE Utf8Encode(_)
Utf8Encode(text) ==
    IF text = <<>> THEN <<>>
    ELSE (IF Head(text) = EAcute THEN <<Utf8Lead, Utf8Cont>> ELSE <<Head(text)>>)
         \o Utf8Encode(Tail(text))

\* bytes.decode("utf-8"): strict, so a chunk that ends inside a character or
\* begins with a continuation byte raises UnicodeDecodeError
Utf8Decode(bytes) ==
    LET n == Len(bytes)
        ok == \A k \in 1 .. n :
                /\ bytes[k] = Utf8Lead => (k < n /\ bytes[k + 1] = Utf8Cont)
                /\ bytes[k] = Utf8Cont => (k > 1 /\ bytes[k - 1] = Utf8Lead)
        leads == SelectSeq(bytes, LAMBDA x : x # Utf8Cont)
    IN  IF ok
        THEN [ok |-> TRUE,
              text |-> [k \in 1 .. Len(leads) |->
                          IF leads[k] = Utf8Lead THEN EAcute ELSE leads[k]]]
        ELSE [ok |-> FALSE, text |-> <<>>]

\* ------------------------------------------------------------------------
\* str helpers used by StreamProcessor.__aiter__
\* ------------------------------------------------------------------------

Whitespace == {SP, CR, LF, "TAB"}

\* str.find("\n"): the 1-based place of the first line feed, 0 when there is
\* none (Python's -1)
FindLF(s) ==
    IF \E k \in 1 .. Len(s) : s[k] = LF
    THEN CHOOSE k \in 1 .. Len(s) :
            s[k] = LF /\ \A j \in 1 .. (k - 1) : s[j] # LF
    ELSE 0

RECURSIVE LStrip(_)
LStrip(s) ==
    IF s # <<>> /\ Head(s) \in Whitespace THEN LStrip(Tail(s)) ELSE s

RECURSIVE RStrip(_)
RStrip(s) ==
    IF s # <<>> /\ s[Len(s)] \in Whitespace
    THEN RStrip(SubSeq(s, 1, Len(s) - 1)) ELSE s

\* str.strip()
Strip(s) == RStrip(LStrip(s))

DataPrefix == <<"d", "a", "t", "a", ":", SP>>
DoneText == <<"[", "D", "O", "N", "E", "]">>

\* str.startswith(prefix)
StartsWith(s, prefix) ==
    Len(s) >= Len(prefix) /\ SubSeq(s, 1, Len(prefix)) = prefix

\* line[6:]
AfterPrefix(line) == SubSeq(line, Len(DataPrefix) + 1, Len(line))

\* ------------------------------------------------------------------------
\* The JSON payloads of the wire protocol
\* ------------------------------------------------------------------------

\* The payloads a server sends: an object whose choices[0].delta holds the
\* optional content and reasoning, with an optional finish_reason; an object
\* with an empty choices list; an object with no choices at all.
Texts == {<<>>, <<"a">>, <<"b">>, <<EAcute>>}

JsonObjects ==
    [kind : {"delta"}, content : Texts \cup {None},
     reasoning : {None, <<"r">>}, finish : {None, <<"s">>}]
    \cup {[kind |-> k, content |-> None, reasoning |-> None, finish |-> None] :
            k \in {"empty_choices", "no_choices"}}

JsonField(key, v) == IF v = None THEN <<>> ELSE <<key, "'">> \o v \o <<"'">>

\* json.dumps on the server's side: the text of an object ("{d" stands for
\* the opening of choices[0].delta, "c", "r" and "f" for the three keys)
JsonText(o) ==
    CASE o.kind = "delta" ->
           <<"{", "d">> \o JsonField("c", o.content)
           \o JsonField("r", o.reasoning) \o JsonField("f", o.finish) \o <<"}">>
      [] o.kind = "empty_choices" -> <<"{", "[", "]", "}">>
      [] OTHER -> <<"{", "}">>

\* json.loads: the object a text is the JSON of, JSONDecodeError for any
\* other text
JsonLoads(data) ==
    IF \E o \in JsonObjects : JsonText(o) = data
    THEN [ok |-> TRUE, obj |-> CHOOSE o \in JsonObjects : JsonText(o) = data]
    ELSE [ok |-> FALSE,
          obj |-> [kind |-> "no_choices", content |-> None,
                   reasoning |-> None, finish |-> None]]

\* Python truthiness of an Optional[str]
Truthy(v) == v # None /\ v # <<>>

StreamChunk(content, reasoning, is_done) ==
    [content |-> content, reasoning |-> reasoning, is_done |-> is_done]

NoChunk == StreamChunk(None, None, FALSE)

\* The try block yielding one field per chunk: a delta with both content and
\* reasoning gives a chunk with the content alone.
ParseDelta_one_field(data) ==
    LET parsed == JsonLoads(data)
        obj == parsed.obj
    IN  IF parsed.ok /\ obj.kind = "delta"
           /\ (Truthy(obj.content) \/ Truthy(obj.reasoning))
        THEN [yield |-> TRUE,
              chunk |-> IF Truthy(obj.content)
                        THEN StreamChunk(obj.content, None, FALSE)
                        ELSE StreamChunk(None, obj.reasoning, FALSE)]
        ELSE [yield |-> FALSE, chunk |-> NoChunk]

\* The try block of __aiter__ for one payload: the chunk to yield, if any.
\* A text that is no JSON (JSONDecodeError), and an object without
\* choices[0]["delta"] (KeyError, IndexError), are skipped.
ParseDelta(data) ==
    LET parsed == JsonLoads(data)
        obj == parsed.obj
    IN  IF parsed.ok /\ obj.kind = "delta"
           /\ (Truthy(obj.content) \/ Truthy(obj.reasoning))
        THEN [yield |-> TRUE,
              chunk |-> StreamChunk(obj.content, obj.reasoning, FALSE)]
        ELSE [yield |-> FALSE, chunk |-> NoChunk]

\* The inner loop without `except json.JSONDecodeError: continue`: a payload
\* that is no JSON ends the scan and the iteration.
RECURSIVE ScanBuffer_malformed_ends(_)
ScanBuffer_malformed_ends(buffer) ==
    LET line_end == FindLF(buffer)
    IN  IF line_end = 0
        THEN [kind |-> "more", buffer |-> buffer, chunk |-> NoChunk]
        ELSE LET line == Strip(SubSeq(buffer, 1, line_end - 1))
                 rest == SubSeq(buffer, line_end + 1, Len(buffer))
             IN  IF ~StartsWith(line, DataPrefix)
                 THEN ScanBuffer_malformed_ends(rest)
                 ELSE IF AfterPrefix(line) = DoneText
                         \/ ~JsonLoads(AfterPrefix(line)).ok
                 THEN [kind |-> "done", buffer |-> rest, chunk |-> NoChunk]
                 ELSE LET d == ParseDelta(AfterPrefix(line))
                      IN  IF d.yield
                          THEN [kind |-> "yield", buffer |-> rest,
                                chunk |-> d.chunk]
                          ELSE ScanBuffer_malformed_ends(rest)

\* The inner `while True` loop of __aiter__, run from the current buffer up
\* to its next yield, to a [DONE] payload, or to a buffer with no complete
\* line left.
RECURSIVE ScanBuffer(_)
ScanBuffer(buffer) ==
    LET line_end == FindLF(buffer)
    IN  IF line_end = 0
        THEN [kind |-> "more", buffer |-> buffer, chunk |-> NoChunk]
        ELSE LET line == Strip(SubSeq(buffer, 1, line_end - 1))
                 rest == SubSeq(buffer, line_end + 1, Len(buffer))
             IN  IF ~StartsWith(line, DataPrefix) THEN ScanBuffer(rest)
                 ELSE IF AfterPrefix(line) = DoneText
                 THEN [kind |-> "done", buffer |-> rest, chunk |-> NoChunk]
                 ELSE LET d == ParseDelta(AfterPrefix(line))
                      IN  IF d.yield
                          THEN [kind |-> "yield", buffer |-> rest,
                                chunk |-> d.chunk]
                          ELSE ScanBuffer(rest)

\* ------------------------------------------------------------------------
\* StreamProcessor
\* ------------------------------------------------------------------------

(* A StreamProcessor and the two resources it owns.
     buffer, closed      self.buffer, self._closed
     gpc                 where the async generator __aiter__ stands:
                         "new" (not started), "read" (awaiting
                         response.content.read), "yield" (suspended at its
                         yield), "closing" (in its finally, awaiting close),
                         "end" (finished)
     closing             where the close() call that passed the guard
                         stands: "release", "session", or "idle"
     respOpen, sessOpen  not response.closed; the ClientSession is open
     nRelease, nSessClose, nCloseCalls, nReads, yields, sawDone, sawError
                         history: calls of response.release(), of
                         session.close() and of close(), reads done,
                         chunks yielded,
                         a [DONE] payload was decoded, the read or the
                         decoding of a chunk raised                        *)
StreamProcessor ==
    [buffer |-> <<>>, closed |-> FALSE, gpc |-> "new", closing |-> "idle",
     respOpen |-> TRUE, sessOpen |-> TRUE, nRelease |-> 0, nSessClose |-> 0,
     nCloseCalls |-> 0, nReads |-> 0, yields |-> <<>>, sawDone |-> FALSE,
     sawError |-> FALSE]

\* close() without its guard: every call releases and closes again
close_unguarded(p) ==
    [p EXCEPT !.closed = TRUE, !.closing = "release", !.nCloseCalls = @ + 1]

\* close(), up to its first await: the guard and the flag
close(p) ==
    IF ~p.closed
    THEN [p EXCEPT !.closed = TRUE, !.closing = "release", !.nCloseCalls = @ + 1]
    ELSE [p EXCEPT !.nCloseCalls = @ + 1]

\* close(): `if not self.response.closed: await self.response.release()`
closeRelease(p) ==
    [p EXCEPT !.closing = "session", !.respOpen = FALSE,
              !.nRelease = IF p.respOpen THEN @ + 1 ELSE @]

\* close(): `await self.session.close()`, which ends the call; a generator
\* that awaited it in its finally is finished
closeSession(p) ==
    [p EXCEPT !.closing = "idle", !.sessOpen = FALSE, !.nSessClose = @ + 1,
              !.gpc = IF @ = "closing" THEN "end" ELSE @]

\* __aiter__: `finally: await self.close()`
aiterFinally(p) ==
    [close(p) EXCEPT !.gpc = IF p.closed THEN "end" ELSE "closing"]

\* __aiter__: `while not self._closed`, then the await of the read
aiterLoop(p) == IF p.closed THEN aiterFinally(p) ELSE [p EXCEPT !.gpc = "read"]

\* __aiter__ whose [DONE] branch only leaves the inner loop, without
\* `self._closed = True`: the outer loop reads on
aiterScan_done_reads_on(p) ==
    LET s == ScanBuffer(p.buffer)
    IN  CASE s.kind = "yield" ->
               [p EXCEPT !.buffer = s.buffer, !.gpc = "yield",
                         !.yields = Append(@, s.chunk)]
          [] s.kind = "done" ->
               [p EXCEPT !.buffer = s.buffer, !.sawDone = TRUE, !.gpc = "read"]
          [] OTHER -> [p EXCEPT !.buffer = s.buffer, !.gpc = "read"]

\* __aiter__ from the inner loop on, up to where it next suspends
aiterScan(p) ==
    LET s == ScanBuffer(p.buffer)
    IN  CASE s.kind = "yield" ->
               [p EXCEPT !.buffer = s.buffer, !.gpc = "yield",
                         !.yields = Append(@, s.chunk)]
          [] s.kind = "done" ->
               aiterLoop([p EXCEPT !.buffer = s.buffer, !.closed = TRUE,
                                   !.sawDone = TRUE])
          [] OTHER -> aiterLoop([p EXCEPT !.buffer = s.buffer])

\* __aiter__ resumed by the end of its read.  ev is what the transport
\* returned: bytes, the empty chunk of EOF (aiohttp has then released the
\* connection and response.closed is true), or an exception.
aiterRead(p, ev) ==
    LET q == [p EXCEPT !.nReads = @ + 1]
    IN  CASE ev.kind = "error" -> aiterFinally([q EXCEPT !.sawError = TRUE])
          [] ev.kind = "eof" -> aiterFinally([q EXCEPT !.respOpen = FALSE])
          [] OTHER ->
               LET d == Utf8Decode(ev.bytes)
               IN  IF d.ok THEN aiterScan([q EXCEPT !.buffer = @ \o d.text])
                   ELSE aiterFinally([q EXCEPT !.sawError = TRUE])

\* the generator has finished and no close() is under way
Ended(p) == p.gpc = "end" /\ p.closing = "idle"

\* __anext__ on the generator: its start, or its resumption after a yield
anext(p) == IF p.gpc = "new" THEN aiterLoop(p) ELSE aiterScan(p)

\* aclose() on a generator abandoned at its yield (the event loop's
\* finalizer): GeneratorExit passes `except Exception` and runs the finally
aclose(p) == aiterFinally(p)

\* ------------------------------------------------------------------------
\* The transport: what response.content.read returns
\* ------------------------------------------------------------------------

\* A script is the chunks the connection will deliver and how it ends.
Script(chunks, end) == [chunks |-> chunks, end |-> end]

NoScript == Script(<<>>, "eof")

ReadEvent(n) ==
    IF n.chunks # <<>> THEN [kind |-> "data", bytes |-> Head(n.chunks)]
    ELSE [kind |-> n.end, bytes |-> <<>>]

AfterRead(n) == IF n.chunks # <<>> THEN [n EXCEPT !.chunks = Tail(@)] ELSE n

\* one frame of the event stream
Frame(o) == DataPrefix \o Utf8Encode(JsonText(o)) \o <<LF>>

Delta(content, reasoning) ==
    [kind |-> "delta", content |-> content, reasoning |-> reasoning,
     finish |-> None]

DoneFrame == DataPrefix \o DoneText \o <<LF>>

\* a payload that is no JSON
BadFrame == DataPrefix \o <<"{", "d", "c">> \o <<LF>>

\* ------------------------------------------------------------------------
\* State
\* ------------------------------------------------------------------------

\* the runs of process_question and update_user_message that are started
MaxRuns == 2

\* the most entries of the sidebar list `history`
MaxChats == 3

\* the user's events (typing, clicks, key presses) in one behaviour
MaxEvents == 4

\* the calls of close() on one StreamProcessor in SpecSession
MaxCloseCalls == 3

\* the most frames of one event stream in SpecFrames
MaxFrames == 3

\* the most messages of the conversation SpecThread starts from
MaxMessages == 4

Runs == 1 .. MaxRuns

VARIABLES
    chat_history,                 \* State.chat_history: the displayed conversation
    question,                     \* State.question: the text of the input box
    processing,                   \* State.processing
    editing_user_message_index,   \* State.editing_user_message_index
    previous_keydown_character,   \* State.previous_keydown_character
    chats,                        \* State.chats: thread name -> conversation
    current_chat,                 \* State.current_chat
    history,                      \* State.history: the sidebar list
    runs,     \* the background tasks: where each stands, and its locals
    sp,       \* per run: its client session, response and StreamProcessor
    net,      \* per run: the script of the connection behind its response
    cancelled, \* history: the runs stop_process was invoked on while streaming
    events     \* history: the number of user events so far

app == <<chat_history, question, processing, editing_user_message_index,
         previous_keydown_character, chats, current_chat, history>>

vars == <<app, runs, sp, net, cancelled, events>>

\* Optional[int] = None
NoIndex == -1

Message(role, content, reasoning) ==
    [role |-> role, content |-> content, reasoning |-> reasoning]

NewChat == <<"New Chat", 0>>

\* f"Chat {n}"
ChatName(n) == <<"Chat", n>>

\* what the user types into the input box
UserTexts == {<<"q">>, <<SP>>}

\* str(e) of the exceptions the handlers catch
ConnectError == <<"Cannot connect to host">>
IndexError == <<"list index out of range">>

\* the message of the exception alone, without the "Error: " before it
ErrorText_bare(e) == e

\* f"Error: {str(e)}"
ErrorText(e) == <<"Error: ">> \o e

\* a _save_current_chat that stores nothing
save_current_chat_skipped(ch, cur, hist) == ch

\* _save_current_chat.  chat_history and chats[current_chat] are one list
\* object after it, so the two also agree on what is appended in between;
\* every handler saves before it gives up the state lock.
save_current_chat(ch, cur, hist) ==
    IF cur \in DOMAIN ch THEN [ch EXCEPT ![cur] = hist] ELSE ch

\* format_messages without `if msg.content`: every message is sent
history_messages_all(hist) ==
    [k \in 1 .. Len(hist) |->
        [role |-> hist[k].role, content |-> hist[k].content]]

\* format_messages
RECURSIVE history_messages(_)
history_messages(hist) ==
    IF hist = <<>> THEN <<>>
    ELSE (IF Truthy(Head(hist).content)
          THEN <<[role |-> Head(hist).role, content |-> Head(hist).content]>>
          ELSE <<>>) \o history_messages(Tail(hist))

format_messages(hist, q) ==
    Append(history_messages(hist), [role |-> "user", content |-> q])

\* list.remove(x): the first occurrence goes
RECURSIVE ListRemove(_, _)
ListRemove(list, x) ==
    IF list = <<>> THEN <<>>
    ELSE IF Head(list) = x THEN Tail(list)
    ELSE <<Head(list)>> \o ListRemove(Tail(list), x)

\* list.pop(i), i counted from 0
ListPop(list, i) == SubSeq(list, 1, i) \o SubSeq(list, i + 2, Len(list))

\* a run that has not started, and its locals
IdleRun ==
    [kind |-> "none", pc |-> "idle", question |-> <<>>, index |-> NoIndex,
     messages |-> <<>>, answer |-> <<>>, reasoning |-> <<>>,
     chunk |-> NoChunk, error |-> <<>>, status |-> 0, home |-> NewChat,
     nErrors |-> 0]

\* the ClientSession of Chat.create before its POST has returned
ClientSession == [StreamProcessor EXCEPT !.gpc = "none", !.respOpen = FALSE]

\* no session, no response, no StreamProcessor
NoSession == [ClientSession EXCEPT !.sessOpen = FALSE]

Init ==
    /\ chat_history = <<>>
    /\ question = <<>>
    /\ processing = FALSE
    /\ editing_user_message_index = NoIndex
    /\ previous_keydown_character = ""
    /\ chats = (NewChat :> <<>>)
    /\ current_chat = NewChat
    /\ history = <<NewChat>>
    /\ runs = [r \in Runs |-> IdleRun]
    /\ sp = [r \in Runs |-> NoSession]
    /\ net = [r \in Runs |-> NoScript]
    /\ cancelled = {}
    /\ events = 0

\* one more user event, while the behaviour may have one
UserEvent == events < MaxEvents /\ events' = events + 1

\* ------------------------------------------------------------------------
\* The steps of a StreamProcessor's close()
\* ------------------------------------------------------------------------

\* close(): the response is released
ReleaseResponse(i) ==
    /\ sp[i].closing = "release"
    /\ sp' = [sp EXCEPT ![i] = closeRelease(@)]
    /\ UNCHANGED <<app, runs, net, cancelled, events>>

\* close(): the client session is closed
CloseClientSession(i) ==
    /\ sp[i].closing = "session"
    /\ sp' = [sp EXCEPT ![i] = closeSession(@)]
    /\ UNCHANGED <<app, runs, net, cancelled, events>>

\* ------------------------------------------------------------------------
\* The user's events.  A handler that is no background task, and each
\* `async with self` block of one that is, holds the state lock: one step.
\* ------------------------------------------------------------------------

\* set_question, the setter of the input box (on_change)
set_question(t) ==
    /\ question # t
    /\ question' = t
    /\ UNCHANGED <<chat_history, processing, editing_user_message_index,
                   previous_keydown_character, chats, current_chat, history,
                   runs, sp, net, cancelled>>
    /\ UserEvent

\* the task of a handler that the event loop is about to start
Queued(r, kind) ==
    /\ runs[r].pc = "idle"
    /\ \A o \in Runs : o < r => runs[o].pc # "idle"
    /\ runs' = [runs EXCEPT ![r] = [IdleRun EXCEPT !.kind = kind, !.pc = "start"]]

\* the form's on_submit: process_question is queued
submit(r) ==
    /\ Queued(r, "process_question")
    /\ UNCHANGED <<app, sp, net, cancelled>>
    /\ UserEvent

\* handle_action_bar_keydown: Control then Enter queues process_question
handle_action_bar_keydown(keydown_character, r) ==
    /\ previous_keydown_character # keydown_character
    /\ IF previous_keydown_character = "Control" /\ keydown_character = "Enter"
       THEN Queued(r, "process_question")
       ELSE r = 1 /\ UNCHANGED runs
    /\ previous_keydown_character' = keydown_character
    /\ UNCHANGED <<chat_history, question, processing,
                   editing_user_message_index, chats, current_chat, history,
                   sp, net, cancelled>>
    /\ UserEvent

\* the runs that are in their consumption loop
Streaming(r) == runs[r].pc \in {"next", "read", "apply"}

\* stop_process (the stop button, shown while processing)
stop_process ==
    /\ processing
    /\ processing' = FALSE
    /\ cancelled' = cancelled \cup {r \in Runs : Streaming(r)}
    /\ UNCHANGED <<chat_history, question, editing_user_message_index,
                   previous_keydown_character, chats, current_chat, history,
                   runs, sp, net>>
    /\ UserEvent

\* create_new_chat
create_new_chat ==
    LET new_chat_id == ChatName(Cardinality(DOMAIN chats) + 1)
        added == [c \in DOMAIN chats \cup {new_chat_id} |->
                    IF c = new_chat_id THEN <<>> ELSE chats[c]]
    IN  /\ Len(history) < MaxChats
        /\ chats' = added
        /\ history' = Append(history, new_chat_id)
        /\ current_chat' = new_chat_id
        /\ chat_history' = added[new_chat_id]
        /\ processing' = FALSE
        /\ UNCHANGED <<question, editing_user_message_index,
                       previous_keydown_character, runs, sp, net, cancelled>>
    /\ UserEvent

\* load_chat, from an entry of the sidebar
load_chat(chat_id) ==
    /\ chat_id # current_chat
    /\ IF chat_id \in DOMAIN chats
       THEN /\ current_chat' = chat_id
            /\ chat_history' = chats[chat_id]
       ELSE UNCHANGED <<current_chat, chat_history>>
    /\ UNCHANGED <<question, processing, editing_user_message_index,
                   previous_keydown_character, chats, history, runs, sp, net,
                   cancelled>>
    /\ UserEvent

\* delete_chat without its guard: "New Chat" is deleted like any other
delete_chat_unguarded ==
    /\ chats' = [c \in DOMAIN chats \ {current_chat} |-> chats[c]]
    /\ history' = ListRemove(history, current_chat)
    /\ current_chat' = NewChat
    /\ chat_history' = chats[NewChat]
    /\ UNCHANGED <<question, processing, editing_user_message_index,
                   previous_keydown_character, runs, sp, net, cancelled>>
    /\ UserEvent

\* delete_chat
delete_chat ==
    /\ current_chat # NewChat
    /\ chats' = [c \in DOMAIN chats \ {current_chat} |-> chats[c]]
    /\ history' = ListRemove(history, current_chat)
    /\ current_chat' = NewChat
    /\ chat_history' = chats[NewChat]
    /\ UNCHANGED <<question, processing, editing_user_message_index,
                   previous_keydown_character, runs, sp, net, cancelled>>
    /\ UserEvent

\* delete_message (the second definition, which replaces the first)
delete_message(index) ==
    LET paired == IF chat_history[index + 1].role = "user"
                     /\ index + 1 < Len(chat_history)
                  THEN ListPop(chat_history, index + 1) ELSE chat_history
        popped == ListPop(paired, index)
    IN  /\ chat_history' = popped
        /\ chats' = save_current_chat(chats, current_chat, popped)
        /\ UNCHANGED <<question, processing, editing_user_message_index,
                       previous_keydown_character, current_chat, history,
                       runs, sp, net, cancelled>>
    /\ UserEvent

\* start_editing_user_message (the context menu of a user message)
start_editing_user_message(index) ==
    /\ chat_history[index + 1].role = "user"
    /\ editing_user_message_index # index
    /\ editing_user_message_index' = index
    /\ question' = chat_history[index + 1].content
    /\ UNCHANGED <<chat_history, processing, previous_keydown_character,
                   chats, current_chat, history, runs, sp, net, cancelled>>
    /\ UserEvent

\* the edit form's on_submit: update_user_message is queued
submit_edit(r) ==
    /\ editing_user_message_index # NoIndex
    /\ Queued(r, "update_user_message")
    /\ UNCHANGED <<app, sp, net, cancelled>>
    /\ UserEvent

\* ------------------------------------------------------------------------
\* Chat.create and the transport behind it
\* ------------------------------------------------------------------------

\* the body of a 200 response, and of an error response (a JSON document,
\* no event stream)
SseScripts ==
    { Script(<<Frame(Delta(<<"a">>, None)) \o Frame(Delta(<<"b">>, None)),
               DoneFrame>>, "eof"),
      Script(<<Frame(Delta(None, <<"r">>)), Frame(Delta(<<"a">>, None))>>,
             "eof"),
      Script(<<Frame(Delta(<<"a">>, None))>>, "error") }

ErrorBody == Script(<<JsonText([kind |-> "no_choices", content |-> None,
                                reasoning |-> None, finish |-> None])>>, "eof")

\* what `await session.post(...)` does: it raises, or it returns a response
\* with a status and a body
PostOutcomes ==
    {[raises |-> TRUE, status |-> 0, body |-> NoScript]}
    \cup {[raises |-> FALSE, status |-> 200, body |-> b] : b \in SseScripts}
    \cup {[raises |-> FALSE, status |-> 401, body |-> ErrorBody]}

\* Chat.create without the `await session.close()` of its except branch:
\* the exception is raised again with the session left open
create_leaves_session_open(session, outcome) ==
    IF outcome.raises
    THEN [raised |-> TRUE, sp |-> session]
    ELSE [raised |-> FALSE, sp |-> StreamProcessor]

\* Chat.create(stream=True) from the return of session.post on: the session
\* is closed and the exception raised again, or the response is wrapped in a
\* StreamProcessor, whatever its status
create(session, outcome) ==
    IF outcome.raises
    THEN [raised |-> TRUE,
          sp |-> [session EXCEPT !.sessOpen = FALSE, !.nSessClose = @ + 1]]
    ELSE [raised |-> FALSE, sp |-> StreamProcessor]

\* ------------------------------------------------------------------------
\* process_question and update_user_message
\* ------------------------------------------------------------------------

(* Where a run stands (pc), each an await of the handler:
     "start"        queued, not yet started
     "edit"         update_user_message: before its first `async with self`
     "ucreate"      update_user_message: at the yield after that block
     "post"         in Chat.create, awaiting session.post
     "placeholder"  before the `async with self` that appends the assistant
                    message
     "next"         about to ask the generator for its next chunk
     "read"         the generator awaits response.content.read
     "apply"        holding a chunk, before the `async with self` that
                    applies it
     "gen_exit"     the generator is in its finally, awaiting its close()
     "exit"         left the loop, awaiting the end of the close() it called
     "exit_raise"   an exception leaves `async with processor`, awaiting the
                    end of its close()
     "except"       before the `async with self` of the except branch
     "finally"      before the `async with self` of the finally branch
     "done"         finished                                                *)

\* the run calls close() and awaits it: __aexit__ of process_question's
\* `async with processor`, and update_user_message's `await session.close()`
await_close(run, p, after) ==
    [run |-> [run EXCEPT !.pc = IF p.closed THEN after
                                ELSE IF after = "except" THEN "exit_raise"
                                ELSE "exit"],
     sp |-> close(p)]

\* the loop is left with the generator ended: process_question leaves its
\* `async with processor`, update_user_message has no such block
leave_loop(run, p) ==
    IF run.kind = "process_question" THEN await_close(run, p, "finally")
    ELSE [run |-> [run EXCEPT !.pc = "finally"], sp |-> p]

\* the consumer's side of `async for chunk in processor`, once the generator
\* p has suspended or ended: the check of self.processing, and the break
Consume(run, p, is_processing) ==
    CASE p.gpc = "yield" /\ is_processing ->
           [run |-> [run EXCEPT !.pc = "apply",
                                !.chunk = p.yields[Len(p.yields)]],
            sp |-> p]
      [] p.gpc = "yield" /\ ~is_processing -> await_close(run, p, "finally")
      [] p.gpc = "read" -> [run |-> [run EXCEPT !.pc = "read"], sp |-> p]
      [] p.gpc = "closing" -> [run |-> [run EXCEPT !.pc = "gen_exit"], sp |-> p]
      [] OTHER -> leave_loop(run, p)

\* process_question up to its await of session.post
process_question_start(r) ==
    /\ runs[r].pc = "start" /\ runs[r].kind = "process_question"
    /\ IF Strip(question) = <<>>
       THEN /\ runs' = [runs EXCEPT ![r] = IdleRun]
            /\ UNCHANGED sp
       ELSE /\ runs' = [runs EXCEPT ![r].pc = "post",
                                    ![r].question = question,
                                    ![r].messages =
                                        format_messages(chat_history, question)]
            /\ sp' = [sp EXCEPT ![r] = ClientSession]
    /\ UNCHANGED <<app, net, cancelled, events>>

\* session.post returns or raises, and Chat.create ends
post(r) ==
    /\ runs[r].pc = "post"
    /\ \E outcome \in PostOutcomes :
         LET made == create(sp[r], outcome)
         IN  /\ sp' = [sp EXCEPT ![r] = made.sp]
             /\ net' = [net EXCEPT ![r] = outcome.body]
             /\ runs' = [runs EXCEPT
                   ![r].status = outcome.status,
                   ![r].pc = IF made.raised THEN "except" ELSE "placeholder",
                   ![r].error = IF made.raised THEN ConnectError ELSE @]
    /\ UNCHANGED <<app, cancelled, events>>

\* process_question: the `async with self` that appends the user message
\* and the assistant placeholder
process_question_placeholder(r) ==
    /\ runs[r].pc = "placeholder" /\ runs[r].kind = "process_question"
    /\ LET appended == chat_history
                \o <<Message("user", runs[r].question, None),
                     Message("assistant", None, None)>>
       IN  /\ chat_history' = appended
           /\ chats' = save_current_chat(chats, current_chat, appended)
    /\ processing' = TRUE
    /\ question' = <<>>
    /\ runs' = [runs EXCEPT ![r].pc = "next", ![r].home = current_chat]
    /\ UNCHANGED <<editing_user_message_index, previous_keydown_character,
                   current_chat, history, sp, net, cancelled, events>>

\* the loop asks the generator for its next chunk, and checks
\* self.processing if it gets one
next_chunk(r) ==
    /\ runs[r].pc = "next"
    /\ LET c == Consume(runs[r], anext(sp[r]), processing)
       IN  /\ runs' = [runs EXCEPT ![r] = c.run]
           /\ sp' = [sp EXCEPT ![r] = c.sp]
    /\ UNCHANGED <<app, net, cancelled, events>>

\* the generator's read ends
read(r) ==
    /\ runs[r].pc = "read"
    /\ LET c == Consume(runs[r], aiterRead(sp[r], ReadEvent(net[r])),
                        processing)
       IN  /\ runs' = [runs EXCEPT ![r] = c.run]
           /\ sp' = [sp EXCEPT ![r] = c.sp]
    /\ net' = [net EXCEPT ![r] = AfterRead(@)]
    /\ UNCHANGED <<app, cancelled, events>>

\* a chunk applied by assigning the fragment alone, without the text
\* accumulated before it
applied_fragment_alone(hist, run) ==
    [hist EXCEPT ![Len(hist)] =
        [@ EXCEPT !.reasoning = IF Truthy(run.chunk.reasoning)
                                THEN run.chunk.reasoning ELSE @,
                  !.content = IF Truthy(run.chunk.content)
                              THEN run.chunk.content ELSE @]]

\* a chunk applied with both kinds of fragment joined in the content field
applied_one_field(hist, run) ==
    [hist EXCEPT ![Len(hist)] =
        [@ EXCEPT !.content =
            (IF Truthy(@) THEN @ ELSE <<>>)
            \o (IF Truthy(run.chunk.reasoning) THEN run.chunk.reasoning
                ELSE <<>>)
            \o (IF Truthy(run.chunk.content) THEN run.chunk.content ELSE <<>>)]]

\* the last message with a chunk applied to it
applied(hist, run) ==
    [hist EXCEPT ![Len(hist)] =
        [@ EXCEPT !.reasoning = IF Truthy(run.chunk.reasoning)
                                THEN run.reasoning \o run.chunk.reasoning
                                ELSE @,
                  !.content = IF Truthy(run.chunk.content)
                              THEN run.answer \o run.chunk.content ELSE @]]

\* the `async with self` that applies a chunk to chat_history[-1]; with an
\* empty chat_history it raises IndexError, which process_question's
\* `async with processor` answers with close()
apply(r) ==
    /\ runs[r].pc = "apply"
    /\ IF chat_history = <<>>
       THEN /\ LET raised == [runs[r] EXCEPT !.error = IndexError]
                    c == IF runs[r].kind = "process_question"
                         THEN await_close(raised, sp[r], "except")
                         ELSE [run |-> [raised EXCEPT !.pc = "except"],
                               sp |-> sp[r]]
                IN  /\ runs' = [runs EXCEPT ![r] = c.run]
                    /\ sp' = [sp EXCEPT ![r] = c.sp]
            /\ UNCHANGED <<chat_history, chats>>
       ELSE /\ chat_history' = applied(chat_history, runs[r])
            /\ chats' = save_current_chat(chats, current_chat,
                                          applied(chat_history, runs[r]))
            /\ runs' = [runs EXCEPT
                  ![r].pc = "next",
                  ![r].reasoning = IF Truthy(runs[r].chunk.reasoning)
                                   THEN @ \o runs[r].chunk.reasoning ELSE @,
                  ![r].answer = IF Truthy(runs[r].chunk.content)
                                THEN @ \o runs[r].chunk.content ELSE @]
            /\ UNCHANGED sp
    /\ UNCHANGED <<question, processing, editing_user_message_index,
                   previous_keydown_character, current_chat, history, net,
                   cancelled, events>>

\* the generator's close() has ended, and with it the generator and the loop
generator_exit(r) ==
    /\ runs[r].pc = "gen_exit"
    /\ sp[r].gpc = "end"
    /\ LET c == leave_loop(runs[r], sp[r])
       IN  /\ runs' = [runs EXCEPT ![r] = c.run]
           /\ sp' = [sp EXCEPT ![r] = c.sp]
    /\ UNCHANGED <<app, net, cancelled, events>>

\* the close() the run awaits has ended
exit(r) ==
    /\ runs[r].pc \in {"exit", "exit_raise"}
    /\ sp[r].closing = "idle"
    /\ runs' = [runs EXCEPT ![r].pc = IF @ = "exit" THEN "finally" ELSE "except"]
    /\ UNCHANGED <<app, sp, net, cancelled, events>>

\* the except branch
except(r) ==
    /\ runs[r].pc = "except"
    /\ LET appended == Append(chat_history,
                Message("assistant", ErrorText(runs[r].error), None))
       IN  /\ chat_history' = appended
           /\ chats' = save_current_chat(chats, current_chat, appended)
    /\ runs' = [runs EXCEPT ![r].pc = "finally", ![r].nErrors = @ + 1]
    /\ UNCHANGED <<question, processing, editing_user_message_index,
                   previous_keydown_character, current_chat, history, sp, net,
                   cancelled, events>>

\* a finally branch that leaves self.processing as it is
finally_keeps_processing(r) ==
    /\ runs[r].pc = "finally"
    /\ runs' = [runs EXCEPT ![r].pc = "done"]
    /\ UNCHANGED <<app, sp, net, cancelled, events>>

\* the finally branch
finally(r) ==
    /\ runs[r].pc = "finally"
    /\ processing' = FALSE
    /\ runs' = [runs EXCEPT ![r].pc = "done"]
    /\ UNCHANGED <<chat_history, question, editing_user_message_index,
                   previous_keydown_character, chats, current_chat, history,
                   sp, net, cancelled, events>>

\* update_user_message: its guard
update_user_message_start(r) ==
    /\ runs[r].pc = "start" /\ runs[r].kind = "update_user_message"
    /\ runs' = [runs EXCEPT ![r] =
          IF editing_user_message_index = NoIndex \/ Strip(question) = <<>>
          THEN IdleRun ELSE [@ EXCEPT !.pc = "edit"]]
    /\ UNCHANGED <<app, sp, net, cancelled, events>>

\* the edit block without its truncation: the messages after the edited one
\* stay
update_user_message_edit_keeps_later(r) ==
    LET current_index == editing_user_message_index
        edited == [chat_history EXCEPT ![current_index + 1].content = question]
        truncated == edited
    IN  /\ runs[r].pc = "edit"
        /\ editing_user_message_index' = NoIndex
        /\ question' = <<>>
        /\ IF current_index = NoIndex \/ current_index >= Len(chat_history)
           THEN /\ runs' = [runs EXCEPT ![r].pc = "done"]
                /\ UNCHANGED <<chat_history, chats, processing>>
           ELSE /\ chat_history' = truncated
                /\ chats' = save_current_chat(chats, current_chat, truncated)
                /\ processing' = TRUE
                /\ runs' = [runs EXCEPT ![r].pc = "ucreate",
                                        ![r].question = question,
                                        ![r].index = current_index,
                                        ![r].home = current_chat]
        /\ UNCHANGED <<previous_keydown_character, current_chat, history, sp,
                       net, cancelled, events>>

\* the edit block cutting one message late: the message after the edited
\* one stays
update_user_message_edit_keeps_reply(r) ==
    LET current_index == editing_user_message_index
        edited == [chat_history EXCEPT ![current_index + 1].content = question]
        truncated == IF current_index + 2 <= Len(edited)
                     THEN SubSeq(edited, 1, current_index + 2) ELSE edited
    IN  /\ runs[r].pc = "edit"
        /\ editing_user_message_index' = NoIndex
        /\ question' = <<>>
        /\ IF current_index = NoIndex \/ current_index >= Len(chat_history)
           THEN /\ runs' = [runs EXCEPT ![r].pc = "done"]
                /\ UNCHANGED <<chat_history, chats, processing>>
           ELSE /\ chat_history' = truncated
                /\ chats' = save_current_chat(chats, current_chat, truncated)
                /\ processing' = TRUE
                /\ runs' = [runs EXCEPT ![r].pc = "ucreate",
                                        ![r].question = question,
                                        ![r].index = current_index,
                                        ![r].home = current_chat]
        /\ UNCHANGED <<previous_keydown_character, current_chat, history, sp,
                       net, cancelled, events>>

\* update_user_message: the `async with self` that replaces the edited
\* message and drops the ones after it.  It is outside the try: an index
\* that is None or past the end ends the task with the exception.
update_user_message_edit(r) ==
    LET current_index == editing_user_message_index
        edited == [chat_history EXCEPT ![current_index + 1].content = question]
        truncated == SubSeq(edited, 1, current_index + 1)
    IN  /\ runs[r].pc = "edit"
        /\ editing_user_message_index' = NoIndex
        /\ question' = <<>>
        /\ IF current_index = NoIndex \/ current_index >= Len(chat_history)
           THEN /\ runs' = [runs EXCEPT ![r].pc = "done"]
                /\ UNCHANGED <<chat_history, chats, processing>>
           ELSE /\ chat_history' = truncated
                /\ chats' = save_current_chat(chats, current_chat, truncated)
                /\ processing' = TRUE
                /\ runs' = [runs EXCEPT ![r].pc = "ucreate",
                                        ![r].question = question,
                                        ![r].index = current_index,
                                        ![r].home = current_chat]
        /\ UNCHANGED <<previous_keydown_character, current_chat, history, sp,
                       net, cancelled, events>>

\* update_user_message from its yield up to the await of session.post
update_user_message_create(r) ==
    /\ runs[r].pc = "ucreate"
    /\ runs' = [runs EXCEPT ![r].pc = "post",
                            ![r].messages =
                                format_messages(chat_history, runs[r].question)]
    /\ sp' = [sp EXCEPT ![r] = ClientSession]
    /\ UNCHANGED <<app, net, cancelled, events>>

\* update_user_message: the `async with self` that appends the assistant
\* placeholder
update_user_message_placeholder(r) ==
    /\ runs[r].pc = "placeholder" /\ runs[r].kind = "update_user_message"
    /\ LET appended == Append(chat_history, Message("assistant", None, None))
       IN  /\ chat_history' = appended
           /\ chats' = save_current_chat(chats, current_chat, appended)
    /\ runs' = [runs EXCEPT ![r].pc = "next"]
    /\ UNCHANGED <<question, processing, editing_user_message_index,
                   previous_keydown_character, current_chat, history, sp, net,
                   cancelled, events>>

\* the event loop finalizes a generator left at its yield: aclose()
finalize(r) ==
    /\ sp[r].gpc = "yield"
    /\ runs[r].pc \in {"exit", "exit_raise", "except", "finally", "done"}
    /\ sp' = [sp EXCEPT ![r] = aclose(@)]
    /\ UNCHANGED <<app, runs, net, cancelled, events>>

\* ------------------------------------------------------------------------
\* Spec: the application
\* ------------------------------------------------------------------------

Next ==
    \/ \E t \in UserTexts : set_question(t)
    \/ \E r \in Runs : submit(r)
    \/ \E k \in {"Control", "Enter"}, r \in Runs : handle_action_bar_keydown(k, r)
    \/ stop_process
    \/ create_new_chat
    \/ \E i \in 1 .. Len(history) : load_chat(history[i])
    \/ delete_chat
    \/ \E i \in 0 .. Len(chat_history) - 1 : delete_message(i)
    \/ \E i \in 0 .. Len(chat_history) - 1 : start_editing_user_message(i)
    \/ \E r \in Runs : submit_edit(r)
    \/ \E r \in Runs : process_question_start(r)
    \/ \E r \in Runs : post(r)
    \/ \E r \in Runs : process_question_placeholder(r)
    \/ \E r \in Runs : update_user_message_start(r)
    \/ \E r \in Runs : update_user_message_edit(r)
    \/ \E r \in Runs : update_user_message_create(r)
    \/ \E r \in Runs : update_user_message_placeholder(r)
    \/ \E r \in Runs : next_chunk(r)
    \/ \E r \in Runs : read(r)
    \/ \E r \in Runs : apply(r)
    \/ \E r \in Runs : generator_exit(r)
    \/ \E r \in Runs : exit(r)
    \/ \E r \in Runs : except(r)
    \/ \E r \in Runs : finally(r)
    \/ \E r \in Runs : finalize(r)
    \/ \E r \in Runs : ReleaseResponse(r)
    \/ \E r \in Runs : CloseClientSession(r)

Spec == Init /\ [][Next]_vars

\* The steps the event loop takes without the user: a background task that
\* is ready runs on, a close() under way goes on, an abandoned generator is
\* finalized.
TaskStep ==
    \E r \in Runs :
        \/ process_question_start(r)
        \/ post(r)
        \/ process_question_placeholder(r)
        \/ update_user_message_start(r)
        \/ update_user_message_edit(r)
        \/ update_user_message_create(r)
        \/ update_user_message_placeholder(r)
        \/ apply(r)
        \/ generator_exit(r)
        \/ exit(r)
        \/ except(r)
        \/ finally(r)
        \/ finalize(r)
        \/ ReleaseResponse(r)
        \/ CloseClientSession(r)

\* The steps of the consumption loop that wait for the generator and, behind
\* it, the transport: the next chunk is asked for, a read that was awaited
\* ends with bytes, EOF or an error.
StreamStep == \E r \in Runs : next_chunk(r) \/ read(r)

\* ENABLED <<StreamStep>>_vars: both steps move the run on wherever it
\* stands at them
StreamStepEnabled == \E r \in Runs : runs[r].pc \in {"next", "read"}

\* Spec where neither kind of step is put off for ever.  The last conjunct
\* is WF_vars(StreamStep) with its ENABLED written as StreamStepEnabled.
FairSpec ==
    /\ Spec
    /\ WF_vars(TaskStep)
    /\ ([]<>(~StreamStepEnabled) \/ []<><<StreamStep>>_vars)

\* ------------------------------------------------------------------------
\* Claims about the application
\* ------------------------------------------------------------------------

\* the run has a StreamProcessor whose iteration has ended, and the run is
\* past the loop and the scope around it
IterationOver(r) ==
    /\ runs[r].pc \in {"finally", "done"}
    /\ Ended(sp[r])

Released(p) == ~p.respOpen /\ ~p.sessOpen

\* C1: when the iteration of a StreamProcessor has ended, for whatever
\* reason, and the scope around it is left, the response has been released
\* and the client session has been closed.
C1_ReleasedWhenIterationEnds ==
    \A r \in Runs : IterationOver(r) => Released(sp[r])

\* C2: after stop_process has run during a streaming turn, the run applies
\* no further chunk to the conversation.
C2_NoMutationAfterCancel ==
    [][\A r \in Runs :
         (r \in cancelled /\ runs[r].pc = "apply" /\ runs'[r].pc # "apply")
            => chat_history' = chat_history]_vars

\* C3: after stop_process during a streaming turn, the stream ends closed:
\* once the cancelled run is done and its generator has finished, the
\* response has been released and the client session closed.
C3_CancelledStreamCloses ==
    \A r \in Runs :
        (r \in cancelled /\ runs[r].pc = "done" /\ Ended(sp[r]))
            => Released(sp[r])

\* C7: a read error in mid-stream reaches the run as an error exactly once:
\* when the run is done, its except branch has run once.
C7_ReadErrorPropagates ==
    \A r \in Runs :
        (sp[r].sawError /\ runs[r].pc = "done") => runs[r].nErrors = 1

\* C8: no two runs are in their consumption loops at once for the same
\* conversation.
C8_OneActiveStream ==
    \A r1, r2 \in Runs :
        (r1 # r2 /\ Streaming(r1) /\ Streaming(r2))
            => runs[r1].home # runs[r2].home

\* C9: a stream started while one thread was current writes no chunk and no
\* error message into another thread: a step of its run that applies a
\* chunk or appends the error message, taken while another thread is
\* current, changes neither the displayed conversation nor that thread's
\* entry of chats.
C9_StreamStaysInItsThread ==
    [][\A r \in Runs :
         (/\ runs[r].pc \in {"apply", "except"}
          /\ runs'[r].pc # runs[r].pc
          /\ sp[r].gpc # "none"
          /\ runs[r].home # current_chat)
            => /\ chat_history' = chat_history
               /\ chats'[current_chat] = chats[current_chat]]_vars

\* C10: when the completion request returns a non-2xx status, Chat.create
\* returns no StreamProcessor, and the client session it opened is closed.
C10_Non2xxFailsCreate ==
    \A r \in Runs :
        (runs[r].pc # "post" /\ runs[r].status \notin {0, 200})
            => sp[r].gpc = "none" /\ ~sp[r].sessOpen

\* the fragments of one field of a sequence of chunks, joined in order
RECURSIVE Joined(_, _)
Joined(chunks, field) ==
    IF chunks = <<>> THEN <<>>
    ELSE (IF Truthy(Head(chunks)[field]) THEN Head(chunks)[field] ELSE <<>>)
         \o Joined(Tail(chunks), field)

\* C12: after every applied chunk, the content of the message the run writes
\* is all the content fragments its stream has yielded so far, joined in
\* order, and its reasoning all the reasoning fragments.
C12_FragmentsAccumulate ==
    [][\A r \in Runs :
         (runs[r].pc = "apply" /\ runs'[r].pc = "next") =>
            LET last == chat_history'[Len(chat_history')]
            IN  /\ Truthy(runs[r].chunk.content) =>
                      last.content = Joined(sp[r].yields, "content")
                /\ Truthy(runs[r].chunk.reasoning) =>
                      last.reasoning = Joined(sp[r].yields, "reasoning")]_vars

\* C12's case: a run has applied its second content fragment
C12_Witness ==
    \E r \in Runs :
        /\ runs[r].pc = "next"
        /\ Len(sp[r].yields) = 2
        /\ Joined(sp[r].yields, "content") = <<"a", "b">>
        /\ chat_history # <<>>
        /\ chat_history[Len(chat_history)].content = <<"a", "b">>

\* C13: while a run of process_question awaits the POST that opens its
\* stream, the conversation already holds its user message followed by an
\* assistant message.
C13_PendingTurnVisible ==
    \A r \in Runs :
        (runs[r].kind = "process_question" /\ runs[r].pc = "post") =>
            \E k \in 1 .. (Len(chat_history) - 1) :
                /\ chat_history[k] = Message("user", runs[r].question, None)
                /\ chat_history[k + 1].role = "assistant"

\* C14: when the connection fails before any frame arrives (the POST
\* raises), the run's except branch leaves an assistant message whose
\* content is "Error: " and the message of the failure at the end of the
\* conversation, and the run ends with a step that leaves processing false.
C14_ConnectFailureShown ==
    [][\A r \in Runs :
         runs[r].error = ConnectError =>
            /\ (runs[r].pc = "except" /\ runs'[r].pc # "except") =>
                  /\ chat_history' # <<>>
                  /\ chat_history'[Len(chat_history')] =
                        Message("assistant", <<"Error: ">> \o ConnectError,
                                None)
            /\ (runs[r].pc # "done" /\ runs'[r].pc = "done") => ~processing']_vars

\* C14's case: a run whose POST raised is done
C14_Witness ==
    \E r \in Runs :
        /\ runs[r].pc = "done"
        /\ runs[r].error = ConnectError
        /\ sp[r].gpc = "none"
        /\ ~processing
        /\ chat_history # <<>>
        /\ chat_history[Len(chat_history)].content = <<"Error: ">> \o ConnectError

\* C15: whenever processing is true it becomes false again, given that the
\* tasks run on and the transport delivers [DONE], EOF or an error: every
\* run that set it reaches its finally branch.
C15_ProcessingClears == processing ~> ~processing

\* C15's case: a run that streamed chunks is done and processing is false
C15_Witness ==
    \E r \in Runs :
        /\ runs[r].pc = "done"
        /\ sp[r].yields # <<>>
        /\ ~processing

\* C17: a reasoning fragment changes only the reasoning of the message it
\* is applied to and a content fragment only its content: the step that
\* applies a chunk leaves the role, leaves the content unless the chunk
\* carries content, and leaves the reasoning unless the chunk carries
\* reasoning; what it writes to a field is made of fragments of that field.
C17_FieldsKeptApart ==
    [][\A r \in Runs :
         (runs[r].pc = "apply" /\ runs'[r].pc = "next") =>
            LET old == chat_history[Len(chat_history)]
                new == chat_history'[Len(chat_history')]
            IN  /\ new.role = old.role
                /\ new.content =
                      IF Truthy(runs[r].chunk.content)
                      THEN runs[r].answer \o runs[r].chunk.content
                      ELSE old.content
                /\ new.reasoning =
                      IF Truthy(runs[r].chunk.reasoning)
                      THEN runs[r].reasoning \o runs[r].chunk.reasoning
                      ELSE old.reasoning]_vars

\* C17's case: a run has applied one reasoning fragment and then one content
\* fragment, and the message holds each in its own field
C17_Witness ==
    \E r \in Runs :
        /\ runs[r].pc = "next"
        /\ sp[r].yields = <<StreamChunk(None, <<"r">>, FALSE),
                            StreamChunk(<<"a">>, None, FALSE)>>
        /\ chat_history # <<>>
        /\ chat_history[Len(chat_history)] =
              Message("assistant", <<"a">>, <<"r">>)

\* C23: a run that stop_process has cancelled while it was streaming ends
\* without error text: its except branch, the one place that puts an
\* "Error: ..." message into the conversation, is never run.
C23_CancelAddsNoError ==
    \A r \in cancelled : runs[r].nErrors = 0

\* the messages of a conversation whose content is neither absent nor empty
WithContent(hist) ==
    SelectSeq(hist, LAMBDA m : m.content # None /\ m.content # <<>>)

\* messages is the role and content of each message of hist that has
\* content, in order, and then one user entry with the text q
Outbound(messages, hist, q) ==
    LET prior == WithContent(hist)
    IN  /\ Len(messages) = Len(prior) + 1
        /\ \A k \in 1 .. Len(prior) :
             messages[k] = [role |-> prior[k].role, content |-> prior[k].content]
        /\ messages[Len(messages)] = [role |-> "user", content |-> q]

\* C26: the message list process_question builds for its request is the
\* role and content of every message of the conversation that has content,
\* in conversation order, followed by one user entry with the new question.
C26_OutboundMessages ==
    [][\A r \in Runs :
         (/\ runs[r].kind = "process_question"
          /\ runs[r].pc = "start"
          /\ runs'[r].pc = "post")
            => Outbound(runs'[r].messages, chat_history, question)]_vars

\* C26's case: a question was submitted while the assistant message of the
\* turn before it had no content yet, and the request leaves that message out
C26_Witness ==
    \E r \in Runs :
        /\ runs[r].kind = "process_question"
        /\ runs[r].pc = "post"
        /\ Len(chat_history) = 2
        /\ chat_history[2] = Message("assistant", None, None)
        /\ runs[r].messages =
              <<[role |-> "user", content |-> chat_history[1].content],
                [role |-> "user", content |-> runs[r].question]>>

\* the steps that change the messages of the conversation: the placeholder
\* appended, a chunk applied, the error message appended, the edit block,
\* delete_message
MutationStep ==
    \/ \E r \in Runs : process_question_placeholder(r)
    \/ \E r \in Runs : update_user_message_placeholder(r)
    \/ \E r \in Runs : apply(r)
    \/ \E r \in Runs : except(r)
    \/ \E r \in Runs : update_user_message_edit(r)
    \/ \E i \in 0 .. Len(chat_history) - 1 : delete_message(i)

\* C28: after every step that changes the messages of the conversation, the
\* entry of the current thread in the thread store is the displayed
\* conversation.
C28_StoreFollowsConversation ==
    [][MutationStep =>
         /\ current_chat' \in DOMAIN chats'
         /\ chats'[current_chat'] = chat_history']_vars

\* C28's case: in a thread made by create_new_chat, a turn has had a chunk
\* applied, and the store holds the conversation with it
C28_Witness ==
    \E r \in Runs :
        /\ runs[r].pc = "next"
        /\ runs[r].answer # <<>>
        /\ current_chat # NewChat
        /\ chat_history # <<>>
        /\ chat_history[Len(chat_history)].content = runs[r].answer
        /\ chats[current_chat] = chat_history

\* C32: a cancel is not lost.  A run that stop_process has cancelled while
\* it was streaming takes no further chunk from its stream to apply, also
\* when another run has set processing to true again in the meantime.
C32_CancelNotLost ==
    [][\A r \in cancelled :
         runs'[r].pc = "apply" => runs[r].pc = "apply"]_vars

\* C33: a chunk applied by a run changes no user message: every message
\* with role user has the content and the reasoning after the step that it
\* had before it.
C33_DeltasSpareUserMessages ==
    [][\A r \in Runs :
         apply(r) =>
            \A k \in 1 .. Len(chat_history) :
                chat_history[k].role = "user" =>
                    /\ k <= Len(chat_history')
                    /\ chat_history'[k] = chat_history[k]]_vars

\* the step of run r is the break out of its consumption loop: the run has
\* been handed a chunk, leaves the loop, and its generator stays at the
\* yield of that chunk
BreakStep(r) ==
    /\ runs[r].pc \in {"next", "read"}
    /\ runs'[r].pc \notin {"next", "read", "apply"}
    /\ sp'[r].gpc = "yield"

\* C34: a run breaks out of its consumption loop, before the [DONE] or the
\* end of its stream, only if stop_process was invoked while it was
\* streaming.
C34_OnlyStopBreaksStream ==
    [][\A r \in Runs : BreakStep(r) => r \in cancelled]_vars

\* ------------------------------------------------------------------------
\* SpecThread: the application started on a conversation that earlier turns,
\* failed turns and deletions have left, with the user editing and deleting
\* its messages and update_user_message regenerating the answers
\* ------------------------------------------------------------------------

\* the messages of such a conversation: a question and an answer
ThreadMessages ==
    {Message("user", <<"q">>, None), Message("assistant", <<"a">>, None)}

Threads == UNION {[1 .. n -> ThreadMessages] : n \in 0 .. MaxMessages}

ThreadInit ==
    \E thread \in Threads :
        /\ chat_history = thread
        /\ chats = (NewChat :> thread)
        /\ question = <<>>
        /\ processing = FALSE
        /\ editing_user_message_index = NoIndex
        /\ previous_keydown_character = ""
        /\ current_chat = NewChat
        /\ history = <<NewChat>>
        /\ runs = [r \in Runs |-> IdleRun]
        /\ sp = [r \in Runs |-> NoSession]
        /\ net = [r \in Runs |-> NoScript]
        /\ cancelled = {}
        /\ events = 0

ThreadNext ==
    \/ \E t \in UserTexts : set_question(t)
    \/ \E i \in 0 .. Len(chat_history) - 1 : delete_message(i)
    \/ \E i \in 0 .. Len(chat_history) - 1 : start_editing_user_message(i)
    \/ \E r \in Runs : submit_edit(r)
    \/ \E r \in Runs : update_user_message_start(r)
    \/ \E r \in Runs : update_user_message_edit(r)
    \/ \E r \in Runs : update_user_message_create(r)
    \/ \E r \in Runs : post(r)
    \/ \E r \in Runs : update_user_message_placeholder(r)
    \/ \E r \in Runs : next_chunk(r)
    \/ \E r \in Runs : read(r)
    \/ \E r \in Runs : apply(r)
    \/ \E r \in Runs : generator_exit(r)
    \/ \E r \in Runs : exit(r)
    \/ \E r \in Runs : except(r)
    \/ \E r \in Runs : finally(r)
    \/ \E r \in Runs : finalize(r)
    \/ \E r \in Runs : ReleaseResponse(r)
    \/ \E r \in Runs : CloseClientSession(r)

SpecThread == ThreadInit /\ [][ThreadNext]_vars

\* ------------------------------------------------------------------------
\* SpecDecode: a StreamProcessor iterated to its end by
\* `async for chunk in processor`, over every way of cutting a byte stream
\* into chunks (iteration 1) and over the uncut stream (iteration 2)
\* ------------------------------------------------------------------------

ByteStreams ==
    { Frame(Delta(<<"a">>, None)) \o Frame(Delta(<<"b">>, None)) \o DoneFrame,
      Frame(Delta(<<EAcute>>, None)) \o DoneFrame,
      Frame(Delta(<<"a">>, None)) \o DoneFrame \o Frame(Delta(<<"b">>, None)),
      Frame(Delta(None, <<"r">>)) \o Frame(Delta(<<"a">>, None)),
      BadFrame \o Frame(Delta(<<"a">>, <<"r">>)) \o DoneFrame,
      <<":", LF, LF>> \o DataPrefix \o JsonText(Delta(<<"a">>, None))
          \o <<CR, LF>> \o DataPrefix \o JsonText(Delta(<<"b">>, None)) }

\* the sets of at most k cuts of a stream of n bytes
RECURSIVE CutSets(_, _)
CutSets(n, k) ==
    IF k = 0 THEN {{}}
    ELSE LET fewer == CutSets(n, k - 1)
         IN  fewer \cup {c \cup {i} : c \in fewer, i \in 1 .. (n - 1)}

\* the chunks of stream s cut after each place of cuts
RECURSIVE Split(_, _)
Split(s, cuts) ==
    IF cuts = {} THEN <<s>>
    ELSE LET c == CHOOSE x \in cuts : \A y \in cuts : x <= y
         IN  <<SubSeq(s, 1, c)>>
             \o Split(SubSeq(s, c + 1, Len(s)), {x - c : x \in cuts \ {c}})

Iterations == {1, 2}

DecodeInit ==
    \E s \in ByteStreams :
      \E cuts \in CutSets(Len(s), MaxCuts) :
        /\ sp = [i \in Iterations |-> StreamProcessor]
        /\ net = [i \in Iterations |->
                    Script(IF i = 1 THEN Split(s, cuts) ELSE <<s>>, "eof")]
        /\ chat_history = <<>>
        /\ question = <<>>
        /\ processing = FALSE
        /\ editing_user_message_index = NoIndex
        /\ previous_keydown_character = ""
        /\ chats = (NewChat :> <<>>)
        /\ current_chat = NewChat
        /\ history = <<NewChat>>
        /\ runs = [r \in Runs |-> IdleRun]
        /\ cancelled = {}
        /\ events = 0

\* the second iteration runs after the first
Turn(i) == i = 1 \/ Ended(sp[1])

\* the consumer's `async for` asks for the next chunk
DecodeNext(i) ==
    /\ Turn(i)
    /\ sp[i].gpc \in {"new", "yield"}
    /\ sp' = [sp EXCEPT ![i] = anext(@)]
    /\ UNCHANGED <<app, runs, net, cancelled, events>>

\* the read of the generator ends
DecodeRead(i) ==
    /\ sp[i].gpc = "read"
    /\ sp' = [sp EXCEPT ![i] = aiterRead(@, ReadEvent(net[i]))]
    /\ net' = [net EXCEPT ![i] = AfterRead(@)]
    /\ UNCHANGED <<app, runs, cancelled, events>>

DecodeStep ==
    \E i \in Iterations :
        \/ DecodeNext(i)
        \/ DecodeRead(i)
        \/ ReleaseResponse(i)
        \/ CloseClientSession(i)

SpecDecode == DecodeInit /\ [][DecodeStep]_vars

\* ------------------------------------------------------------------------
\* SpecSession: one StreamProcessor whose consumer iterates it, calls
\* close() on it whenever it has control, also while an earlier close() is
\* still releasing, and may abandon the generator at a yield
\* ------------------------------------------------------------------------

SessionInit ==
    \E body \in SseScripts :
        /\ sp = [i \in {1} |-> StreamProcessor]
        /\ net = [i \in {1} |-> body]
        /\ chat_history = <<>>
        /\ question = <<>>
        /\ processing = FALSE
        /\ editing_user_message_index = NoIndex
        /\ previous_keydown_character = ""
        /\ chats = (NewChat :> <<>>)
        /\ current_chat = NewChat
        /\ history = <<NewChat>>
        /\ runs = [r \in Runs |-> IdleRun]
        /\ cancelled = {}
        /\ events = 0

\* the consumer calls close()
SessionClose(i) ==
    /\ sp[i].gpc \in {"new", "yield", "end"}
    /\ sp[i].nCloseCalls < MaxCloseCalls
    /\ sp' = [sp EXCEPT ![i] = close(@)]
    /\ UNCHANGED <<app, runs, net, cancelled, events>>

\* the generator, left at its yield, is finalized: aclose()
SessionFinalize(i) ==
    /\ sp[i].gpc = "yield"
    /\ sp[i].nCloseCalls < MaxCloseCalls
    /\ sp' = [sp EXCEPT ![i] = aclose(@)]
    /\ UNCHANGED <<app, runs, net, cancelled, events>>

SessionStep ==
    \/ DecodeNext(1)
    \/ DecodeRead(1)
    \/ SessionClose(1)
    \/ SessionFinalize(1)
    \/ ReleaseResponse(1)
    \/ CloseClientSession(1)

SpecSession == SessionInit /\ [][SessionStep]_vars

\* ------------------------------------------------------------------------
\* SpecFrames: a StreamProcessor iterated to its end over every event stream
\* of at most MaxFrames frames, delivered whole or cut in two chunks.  The
\* script of the connection also records what the server sent.
\* ------------------------------------------------------------------------

\* the payload of a frame: a delta with content, with reasoning, with both;
\* a delta whose choice has a finish_reason, with content and without; a
\* text that is no JSON; [DONE]
Finished(content) ==
    [kind |-> "delta", content |-> content, reasoning |-> None,
     finish |-> <<"s">>]

Malformed ==
    [kind |-> "malformed", content |-> None, reasoning |-> None,
     finish |-> None]

Done == [kind |-> "done", content |-> None, reasoning |-> None, finish |-> None]

FramePayloads ==
    {Delta(<<"a">>, None), Delta(None, <<"r">>), Delta(<<"b">>, <<"r">>),
     Finished(<<"a">>), Finished(None), Malformed, Done}

\* the text of a payload on the wire
PayloadText(o) ==
    CASE o.kind = "malformed" -> <<"{", "d", "c">>
      [] o.kind = "done" -> DoneText
      [] OTHER -> Utf8Encode(JsonText(o))

\* the bytes of a sequence of frames
RECURSIVE Wire(_)
Wire(payloads) ==
    IF payloads = <<>> THEN <<>>
    ELSE DataPrefix \o PayloadText(Head(payloads)) \o <<LF>>
         \o Wire(Tail(payloads))

FrameSeqs == UNION {[1 .. k -> FramePayloads] : k \in 0 .. MaxFrames}

FramesInit ==
    \E payloads \in FrameSeqs :
      \E cuts \in CutSets(Len(Wire(payloads)), 1) :
        /\ sp = [i \in {1} |-> StreamProcessor]
        /\ net = [i \in {1} |->
                    [chunks |-> IF payloads = <<>> THEN <<>>
                                ELSE Split(Wire(payloads), cuts),
                     end |-> "eof", sent |-> payloads]]
        /\ chat_history = <<>>
        /\ question = <<>>
        /\ processing = FALSE
        /\ editing_user_message_index = NoIndex
        /\ previous_keydown_character = ""
        /\ chats = (NewChat :> <<>>)
        /\ current_chat = NewChat
        /\ history = <<NewChat>>
        /\ runs = [r \in Runs |-> IdleRun]
        /\ cancelled = {}
        /\ events = 0

FramesStep ==
    \/ DecodeNext(1)
    \/ DecodeRead(1)
    \/ ReleaseResponse(1)
    \/ CloseClientSession(1)

SpecFrames == FramesInit /\ [][FramesStep]_vars

\* ------------------------------------------------------------------------
\* SpecCreate: calls of Chat.create, with stream=True and with stream=False,
\* each from the creation of its ClientSession to its return or its raise,
\* over every outcome of the POST and of the reading of the body
\* ------------------------------------------------------------------------

\* str(e) of what `await response.json()` raises on a body that is no JSON
JsonError == <<"Expecting value">>

\* a call of Chat.create that has made its ClientSession and awaits
\* session.post.  pc: "post", "json" (awaiting response.json()),
\* "finally_close" (the inner finally, awaiting session.close()),
\* "except_close" (the except branch, awaiting session.close()),
\* "returned", "raised"
CreateCall(stream) ==
    [IdleRun EXCEPT !.kind = "create", !.pc = "post"] @@ [stream |-> stream]

CreateInit ==
    \E streams \in [Runs -> BOOLEAN] :
        /\ runs = [i \in Runs |-> CreateCall(streams[i])]
        /\ sp = [i \in Runs |-> ClientSession]
        /\ net = [i \in Runs |-> NoScript]
        /\ chat_history = <<>>
        /\ question = <<>>
        /\ processing = FALSE
        /\ editing_user_message_index = NoIndex
        /\ previous_keydown_character = ""
        /\ chats = (NewChat :> <<>>)
        /\ current_chat = NewChat
        /\ history = <<NewChat>>
        /\ cancelled = {}
        /\ events = 0

\* session.post returns or raises.  When it raises, and when stream is
\* true, the call ends here; otherwise it goes on to read the body.
create_post(i) ==
    /\ runs[i].pc = "post"
    /\ \E outcome \in PostOutcomes :
         IF outcome.raises \/ runs[i].stream
         THEN LET made == create(sp[i], outcome)
              IN  /\ sp' = [sp EXCEPT ![i] = made.sp]
                  /\ runs' = [runs EXCEPT
                        ![i].status = outcome.status,
                        ![i].pc = IF made.raised THEN "raised" ELSE "returned",
                        ![i].error = IF made.raised THEN ConnectError ELSE @]
         ELSE /\ sp' = [sp EXCEPT ![i].respOpen = TRUE]
              /\ runs' = [runs EXCEPT ![i].status = outcome.status,
                                      ![i].pc = "json"]
    /\ UNCHANGED <<app, net, cancelled, events>>

\* `data = await response.json()` gives the document or raises, and
\* `return ChatCompletionChunk(data)` enters the finally
create_json(i) ==
    /\ runs[i].pc = "json"
    /\ \E parsed \in BOOLEAN :
         runs' = [runs EXCEPT ![i].pc = "finally_close",
                              ![i].error = IF parsed THEN @ ELSE JsonError]
    /\ sp' = [sp EXCEPT ![i].respOpen = FALSE]
    /\ UNCHANGED <<app, net, cancelled, events>>

\* an inner finally that does not close the session
create_finally_leaves_session(i) ==
    /\ runs[i].pc = "finally_close"
    /\ runs' = [runs EXCEPT ![i].pc = IF runs[i].error = <<>> THEN "returned"
                                      ELSE "except_close"]
    /\ UNCHANGED <<app, sp, net, cancelled, events>>

\* `finally: await session.close()`, then the return, or the exception goes
\* on to the except branch
create_finally(i) ==
    /\ runs[i].pc = "finally_close"
    /\ sp' = [sp EXCEPT ![i].sessOpen = FALSE, ![i].nSessClose = @ + 1]
    /\ runs' = [runs EXCEPT ![i].pc = IF runs[i].error = <<>> THEN "returned"
                                      ELSE "except_close"]
    /\ UNCHANGED <<app, net, cancelled, events>>

\* `except Exception: await session.close(); raise` for what the reading of
\* the body raised
create_except(i) ==
    /\ runs[i].pc = "except_close"
    /\ sp' = [sp EXCEPT ![i].sessOpen = FALSE, ![i].nSessClose = @ + 1]
    /\ runs' = [runs EXCEPT ![i].pc = "raised"]
    /\ UNCHANGED <<app, net, cancelled, events>>

CreateNext ==
    \/ \E i \in Runs : create_post(i)
    \/ \E i \in Runs : create_json(i)
    \/ \E i \in Runs : create_finally(i)
    \/ \E i \in Runs : create_except(i)

SpecCreate == CreateInit /\ [][CreateNext]_vars

\* ------------------------------------------------------------------------
\* SpecChats: the sidebar.  The user creates, loads and deletes threads,
\* starting from a store that create_new_chat and completed turns have
\* left: "New Chat" and the threads made after it, each empty or holding
\* one turn.
\* ------------------------------------------------------------------------

\* a conversation of one completed turn
OneTurn ==
    <<Message("user", <<"q">>, None), Message("assistant", <<"a">>, None)>>

\* the names the first n - 1 calls of create_new_chat give, after "New Chat"
NamesAfter(n) == {NewChat} \cup {ChatName(k) : k \in 2 .. n}

\* the ids a load_chat event may carry: those of threads that exist, that
\* were deleted, or that never existed
ChatIds == NamesAfter(MaxChats + 1)

ChatsInit ==
    \E n \in 1 .. MaxChats :
      \E store \in [NamesAfter(n) -> {<<>>, OneTurn}] :
        \E cur \in NamesAfter(n) :
          /\ chats = store
          /\ history = [k \in 1 .. n |-> IF k = 1 THEN NewChat ELSE ChatName(k)]
          /\ current_chat = cur
          /\ chat_history = store[cur]
          /\ question = <<>>
          /\ processing = FALSE
          /\ editing_user_message_index = NoIndex
          /\ previous_keydown_character = ""
          /\ runs = [r \in Runs |-> IdleRun]
          /\ sp = [r \in Runs |-> NoSession]
          /\ net = [r \in Runs |-> NoScript]
          /\ cancelled = {}
          /\ events = 0

ChatsNext ==
    \/ create_new_chat
    \/ \E chat_id \in ChatIds : load_chat(chat_id)
    \/ delete_chat

SpecChats == ChatsInit /\ [][ChatsNext]_vars

\* ------------------------------------------------------------------------
\* Claims about the StreamProcessor alone
\* ------------------------------------------------------------------------

\* C4: for every two ways of splitting the same byte stream into chunks,
\* iterating a StreamProcessor over either yields the same sequence of
\* chunks.  Stated of every split against the uncut stream: when both
\* iterations have ended, they have yielded the same sequence.
C4_ChunkBoundaryIndependence ==
    (Ended(sp[1]) /\ Ended(sp[2])) => sp[1].yields = sp[2].yields

\* C5: once a line whose payload is exactly [DONE] has been decoded, the
\* StreamProcessor yields no further chunk and reads no further chunk.
C5_DoneTerminates ==
    [][\A i \in DOMAIN sp :
         (sp[i].sawDone /\ i \in DOMAIN sp') =>
            /\ sp'[i].sawDone
            /\ sp'[i].yields = sp[i].yields
            /\ sp'[i].nReads = sp[i].nReads]_vars

\* C5's case: a [DONE] was decoded while a complete line that would yield a
\* chunk follows it in the buffer, and the iteration has ended
C5_Witness ==
    \E i \in DOMAIN sp :
        /\ sp[i].sawDone
        /\ Ended(sp[i])
        /\ ScanBuffer(sp[i].buffer).kind = "yield"

\* C6: over any sequence of close() calls and iteration steps on one
\* StreamProcessor, the response is released at most once and the client
\* session is closed at most once.
C6_CloseIdempotent ==
    \A i \in DOMAIN sp : sp[i].nRelease <= 1 /\ sp[i].nSessClose <= 1

\* C6's case: a second close() has arrived while the first is still
\* releasing
C6_Witness ==
    \E i \in DOMAIN sp :
        /\ sp[i].nCloseCalls >= 2
        /\ sp[i].closing # "idle"
        /\ sp[i].nSessClose = 0

\* the payloads of a stream up to its first [DONE]
RECURSIVE BeforeDone(_)
BeforeDone(payloads) ==
    IF payloads = <<>> \/ Head(payloads).kind = "done" THEN <<>>
    ELSE <<Head(payloads)>> \o BeforeDone(Tail(payloads))

\* the well-formed payloads among them that carry content or reasoning
Valid(payloads) ==
    SelectSeq(payloads,
              LAMBDA o : o.kind = "delta"
                         /\ (Truthy(o.content) \/ Truthy(o.reasoning)))

\* a malformed payload stands between two valid ones, before any [DONE]
MalformedBetween(payloads) ==
    LET b == BeforeDone(payloads)
    IN  \E k \in 2 .. (Len(b) - 1) :
            /\ b[k].kind = "malformed"
            /\ Valid(<<b[k - 1]>>) # <<>>
            /\ Valid(<<b[k + 1]>>) # <<>>

\* C11: a payload that is no JSON does not end the iteration: when the
\* iteration over a stream with such a payload has ended, no error was met
\* and the chunks yielded are those of the valid frames before and after it,
\* in the order sent.
C11_MalformedFrameSkipped ==
    \A i \in DOMAIN sp :
        (Ended(sp[i]) /\ \E k \in DOMAIN net[i].sent :
                             net[i].sent[k].kind = "malformed")
            => /\ ~sp[i].sawError
               /\ Len(sp[i].yields) = Len(Valid(BeforeDone(net[i].sent)))
               /\ \A k \in DOMAIN sp[i].yields :
                    LET o == Valid(BeforeDone(net[i].sent))[k]
                    IN  /\ sp[i].yields[k].content = o.content
                        /\ sp[i].yields[k].reasoning = o.reasoning

\* C11's case: the iteration has ended over a stream with a malformed
\* payload between two valid frames, and has yielded both
C11_Witness ==
    \E i \in DOMAIN sp :
        /\ Ended(sp[i])
        /\ MalformedBetween(net[i].sent)
        /\ Len(sp[i].yields) = 2

\* a payload that carries both content and reasoning
Both(o) == o.kind = "delta" /\ Truthy(o.content) /\ Truthy(o.reasoning)

\* C16: a frame whose delta carries both content and reasoning gives exactly
\* one chunk, with both fields: when the iteration has ended, there is one
\* chunk per valid frame sent before [DONE], and the chunk of each frame
\* that carries both fields holds both.
C16_BothFieldsOneChunk ==
    \A i \in DOMAIN sp :
        Ended(sp[i]) =>
            LET v == Valid(BeforeDone(net[i].sent))
            IN  /\ Len(sp[i].yields) = Len(v)
                /\ \A k \in DOMAIN v :
                     Both(v[k]) =>
                        /\ sp[i].yields[k].content = v[k].content
                        /\ sp[i].yields[k].reasoning = v[k].reasoning

\* C16's case: the iteration has ended over a stream with a both-fields
\* frame after another valid frame, and has yielded the chunk of each
C16_Witness ==
    \E i \in DOMAIN sp :
        /\ Ended(sp[i])
        /\ Len(sp[i].yields) >= 2
        /\ Both(Valid(BeforeDone(net[i].sent))[2])
        /\ Truthy(sp[i].yields[2].content)
        /\ Truthy(sp[i].yields[2].reasoning)

\* the roles of a conversation
Roles(thread) == [k \in 1 .. Len(thread) |-> thread[k].role]

\* the step of run r is the edit block of update_user_message, and it edits
EditStep(r) == runs[r].pc = "edit" /\ runs'[r].pc = "ucreate"

\* C18 as stated, with the index the handlers use (counted from 0): editing
\* index 1 of [user, assistant, user] leaves [user].
C18_EditIndexOneTruncatesToOne ==
    [][\A r \in Runs :
         (/\ EditStep(r)
          /\ editing_user_message_index = 1
          /\ Roles(chat_history) = <<"user", "assistant", "user">>)
            => Roles(chat_history') = <<"user">>]_vars

\* C18, amended: editing the first message, index 0, of
\* [user, assistant, user] leaves that message alone, with the new text,
\* before the answer is regenerated.
C18_EditFirstTruncatesToOne ==
    [][\A r \in Runs :
         (/\ EditStep(r)
          /\ editing_user_message_index = 0
          /\ Roles(chat_history) = <<"user", "assistant", "user">>)
            => chat_history' = <<Message("user", question, None)>>]_vars

\* C18's case: the first message was edited, nothing else was done since
\* the start, and the conversation is that message alone
C18_Witness ==
    \E r \in Runs :
        /\ runs[r].pc = "ucreate"
        /\ runs[r].index = 0
        /\ events = 2
        /\ chat_history = <<Message("user", runs[r].question, None)>>
        /\ chats[current_chat] = chat_history

\* C19: the edit block of update_user_message with editing index i drops
\* every message after position i, leaves every message before it as it
\* was, and leaves at position i the edited message with the new text.
C19_EditFrame ==
    [][\A r \in Runs :
         EditStep(r) =>
            LET i == editing_user_message_index
            IN  /\ Len(chat_history') = i + 1
                /\ \A k \in 1 .. i : chat_history'[k] = chat_history[k]
                /\ chat_history'[i + 1] =
                      [chat_history[i + 1] EXCEPT !.content = question]]_vars

\* C19's case: a message with messages before it was edited, and the
\* conversation ends with it
C19_Witness ==
    \E r \in Runs :
        /\ runs[r].pc = "ucreate"
        /\ runs[r].index = 2
        /\ Len(chat_history) = 3
        /\ chat_history[3].content = runs[r].question

\* no user message is immediately followed by another user message
NoAdjacentUsers(thread) ==
    \A k \in 1 .. (Len(thread) - 1) :
        ~(thread[k].role = "user" /\ thread[k + 1].role = "user")

\* C20: no turn, edit or delete_message puts a user message immediately
\* before another user message: a step from a conversation without such a
\* pair leads to a conversation without one.
C20_NoAdjacentUserMessages ==
    [][NoAdjacentUsers(chat_history) => NoAdjacentUsers(chat_history')]_vars

\* C21: delete_message on a user message removes that message and the
\* message after it, which is an assistant message, and nothing else (a user
\* message that is the last one goes alone); on an assistant message it
\* removes that message alone.
C21_DeleteRemovesPair ==
    [][\A i \in 0 .. Len(chat_history) - 1 :
         delete_message(i) =>
            IF chat_history[i + 1].role = "user" /\ i + 1 < Len(chat_history)
            THEN /\ chat_history[i + 2].role = "assistant"
                 /\ chat_history' = SubSeq(chat_history, 1, i)
                        \o SubSeq(chat_history, i + 3, Len(chat_history))
            ELSE chat_history' = SubSeq(chat_history, 1, i)
                        \o SubSeq(chat_history, i + 2, Len(chat_history))]_vars

\* the payloads whose choice 0 has a non-null finish_reason
WithFinish(payloads) ==
    SelectSeq(payloads, LAMBDA o : o.kind = "delta" /\ o.finish # None)

\* the chunks marked terminal
Terminal(yields) == SelectSeq(yields, LAMBDA c : c.is_done)

\* C22: every frame whose choice 0 has a non-null finish_reason gives a
\* chunk with is_done true, also a frame with neither content nor reasoning:
\* when the iteration has ended, there are as many terminal chunks as such
\* frames were sent before [DONE].
C22_FinishReasonMarksTerminal ==
    \A i \in DOMAIN sp :
        Ended(sp[i]) =>
            Len(Terminal(sp[i].yields))
                = Len(WithFinish(BeforeDone(net[i].sent)))

\* C24: when the POST of Chat.create raises, the call closes the client
\* session it opened and raises the error to its caller: it ends raised,
\* with no StreamProcessor made and the session closed, once.
C24_ConnectFailureClosesSession ==
    \A i \in DOMAIN runs :
        runs[i].error = ConnectError =>
            /\ runs[i].pc = "raised"
            /\ sp[i].gpc = "none"
            /\ ~sp[i].sessOpen
            /\ sp[i].nSessClose = 1

\* C24's case: the POST of a streaming call and the POST of a non-streaming
\* call have raised
C24_Witness ==
    \E i, j \in DOMAIN runs :
        /\ runs[i].stream /\ ~runs[j].stream
        /\ runs[i].error = ConnectError /\ runs[j].error = ConnectError
        /\ runs[i].pc = "raised" /\ runs[j].pc = "raised"

\* C25: a call of Chat.create with stream=False has closed its client
\* session when it returns and when it raises.
C25_NonStreamingClosesSession ==
    \A i \in DOMAIN runs :
        (~runs[i].stream /\ runs[i].pc \in {"returned", "raised"}) =>
            ~sp[i].sessOpen /\ sp[i].nSessClose >= 1

\* C25's case: one non-streaming call has returned its parsed document and
\* another has raised what the reading of the body raised
C25_Witness ==
    \E i, j \in DOMAIN runs :
        /\ ~runs[i].stream /\ ~runs[j].stream
        /\ runs[i].pc = "returned" /\ runs[i].error = <<>>
        /\ runs[j].pc = "raised" /\ runs[j].error = JsonError

\* C27: the message list update_user_message builds for its request is the
\* one process_question would build from the messages before the edited
\* one: those messages, and then the new text once.  Stated of a request
\* built while the conversation is as the edit block left it.
C27_EditedTextSentOnce ==
    [][\A r \in Runs :
         (/\ runs[r].pc = "ucreate"
          /\ runs'[r].pc = "post"
          /\ Len(chat_history) = runs[r].index + 1
          /\ chat_history[Len(chat_history)].content = runs[r].question)
            => Outbound(runs'[r].messages,
                        SubSeq(chat_history, 1, runs[r].index),
                        runs[r].question)]_vars

\* the current thread is in the store, and so is "New Chat"
CurrentInStore == current_chat \in DOMAIN chats /\ NewChat \in DOMAIN chats

\* C29: over any sequence of create_new_chat, load_chat and delete_chat the
\* current thread is a key of the store and "New Chat" is never removed,
\* before and after every step, and load_chat with an id that is no key of
\* the store changes nothing of the state.
C29_CurrentThreadInStore ==
    [][/\ CurrentInStore
       /\ CurrentInStore'
       /\ \A chat_id \in ChatIds \ DOMAIN chats :
            load_chat(chat_id) => UNCHANGED app]_vars

\* C29's case: a thread that was not the last one made was loaded and
\* deleted: it is gone from the store, a thread made after it is still
\* there, and "New Chat" is current
C29_Witness ==
    /\ events >= 2
    /\ current_chat = NewChat
    /\ \E k \in 2 .. MaxChats :
         /\ ChatName(k) \notin DOMAIN chats
         /\ ChatName(k + 1) \in DOMAIN chats
    /\ Len(history) = Cardinality(DOMAIN chats)

\* C30: create_new_chat gives the new thread a name that is no key of the
\* store, and leaves the conversation of every thread of the store as it is.
C30_NewChatNameIsFresh ==
    [][create_new_chat =>
         /\ current_chat' \notin DOMAIN chats
         /\ \A c \in DOMAIN chats : chats'[c] = chats[c]]_vars

\* C31: over any sequence of create_new_chat, load_chat and delete_chat the
\* sidebar list holds the keys of the store, each once.
C31_HistoryListsStore ==
    /\ {history[k] : k \in 1 .. Len(history)} = DOMAIN chats
    /\ Len(history) = Cardinality(DOMAIN chats)

\* C35: once close() has been called on a StreamProcessor, its iteration
\* yields no further chunk, also from complete lines that were in the
\* buffer at the call; called before the iteration began, it leaves the
\* iteration nothing to yield and nothing to read.
C35_ClosedYieldsNothing ==
    [][\A i \in DOMAIN sp :
         (sp[i].nCloseCalls >= 1 /\ i \in DOMAIN sp') =>
            /\ sp'[i].yields = sp[i].yields
            /\ sp'[i].nReads = sp[i].nReads]_vars

====
